---------------------------- MODULE Spec2Model ----------------------------
(***************************************************************************)
(* A model of blockchain3.py: the Blockchain class (chain, pending         *)
(* transactions, peer set, proof of work, chain validation, longest-chain  *)
(* conflict resolution) and the Flask routes that drive it.                *)
(*                                                                         *)
(* Several processes of the program run side by side (Nodes); each owns    *)
(* one Blockchain object.  The specifications are given over the same      *)
(* state:                                                                  *)
(*   SpecSeq    every request is served from start to end before the next  *)
(*              one starts; all peers are processes of this program;       *)
(*   SpecFair   as SpecSeq without the clock, where a process resolves     *)
(*              conflicts again and again;                                 *)
(*   SpecOpen   one process, served one request at a time, whose peers are *)
(*              foreign servers that fail, or answer GET /chain with a     *)
(*              chain that is well formed up to its last block;            *)
(*   SpecValid  as SpecOpen, with a foreign server that answers anything;  *)
(*   SpecAny    as SpecOpen with transactions, and a foreign server that   *)
(*              answers an empty chain under a large length;               *)
(*   SpecPow    one process that mines on a genesis of any proof;          *)
(*   Spec       the threaded server: the requests of process A are served  *)
(*              by threads that interleave between their accesses to the   *)
(*              shared Blockchain object; its peer B is a process of the   *)
(*              program that serves its requests one at a time;            *)
(*   SpecLocal  the threaded server with no peers, any payload posted;     *)
(*   SpecSilent the threaded server resolving conflicts with foreign       *)
(*              servers of which some accept the connection and never      *)
(*              answer.                                                    *)
(*                                                                         *)
(* Abstractions.  hashlib.sha256 appears twice in the source.  In hash()   *)
(* only equality of digests is ever used, so the digest is modelled as the *)
(* canonical serialisation itself (a collision-free hash).  In             *)
(* valid_proof() the leading hexadecimal digits are tested, so there the   *)
(* digest is a small arithmetic hash over the decimal digits of the guess  *)
(* string, two hex digits wide, and the "0000" prefix is scaled to one     *)
(* leading zero digit.  time() reads a bounded clock.                      *)
(***************************************************************************)
EXTENDS Integers, Sequences, FiniteSets, TLC

VARIABLES
    now,                    \* the wall clock read by time()
    chain,                  \* chain[n]: self.chain of process n
    current_transactions,   \* current_transactions[n]: the list object self.current_transactions is bound to
    nodes,                  \* nodes[n]: self.nodes
    nextList,               \* nextList[n]: identity given to the next list object process n creates
    remote,                 \* remote[p]: what the foreign server p answers to GET /chain
    receipts,               \* receipts[n]: the <<transaction, index>> answers clients got from POST /transactions/new
    threads                 \* threads[t]: the request a server thread is serving, and its local variables

vars == <<now, chain, current_transactions, nodes, nextList, remote, receipts, threads>>

---------------------------------------------------------------------------
(* Bounds of the model *)

MaxChain == 3       \* a process mines only while its chain is shorter than this, and fewer blocks than this
MaxPool == 2        \* a transaction is accepted only while the pool holds fewer than this
MaxTime == 1        \* the clock runs over 0..MaxTime
MaxProof == 60      \* the proof search is followed up to this candidate

Nodes == {"A", "B"}                  \* the processes of this program
External == {"X", "Y"}               \* foreign servers (SpecOpen)
Threads == {1, 2}                    \* server threads (Spec)

node_identifier == [n \in Nodes |-> "id-" \o n]

\* The local variables of a server thread, as they are before a request.
Idle ==
    [pc |-> "idle", node |-> "",
     item |-> [sender |-> "", recipient |-> "", amount |-> 0],      \* new_transaction: the dict to append
     list |-> 0,                                                    \* new_transaction: the list object loaded
     proof |-> 0, index |-> 0, timestamp |-> 0,                     \* mine, new_block: the block being built
     transactions |-> [id |-> 0, items |-> <<>>], previous_hash |-> "",
     neighbours |-> <<>>, size |-> 0,                               \* resolve_conflicts: the peers still to visit, the size of the set
     acc |-> [max_length |-> 0, new_chain |-> {}, raised |-> FALSE]] \* resolve_conflicts: max_length, new_chain

---------------------------------------------------------------------------
(* Values *)

Last(s) == s[Len(s)]

\* A Python list object: its identity and its items.  Identity 0 is a list
\* nobody else holds (decoded from JSON).
NewList(id) == [id |-> id, items |-> <<>>]

\* str(n) for n >= 0, as a sequence of decimal digits.
RECURSIVE str(_)
str(n) == IF n < 10 THEN <<n>> ELSE Append(str(n \div 10), n % 10)

\* hashlib.sha256(guess).hexdigest() scaled to two hex digits (0..255):
\* every character of the guess is mixed into the running digest h.
RECURSIVE sha256(_, _)
sha256(guess, h) ==
    IF guess = <<>> THEN h
    ELSE LET x == h + Head(guess) + 1
         IN  sha256(Tail(guess), (31 * x * x + 27 * x + 7) % 256)

valid_proof(last_proof, proof) ==
    LET guess == str(last_proof) \o str(proof)
        guess_hash == sha256(guess, 17)
    IN  guess_hash \div 16 = 0          \* the leading hex digit is "0"

RECURSIVE search(_, _)
search(last_proof, proof) ==
    IF valid_proof(last_proof, proof) \/ proof > MaxProof THEN proof
    ELSE search(last_proof, proof + 1)

\* A search that starts at 1: what C17 must tell from proof_of_work.
proof_of_work_from_one(last_proof) == search(last_proof, 1)

\* A search that stops one past the proof: what C3 must tell from proof_of_work.
proof_of_work_overshoots(last_proof) == search(last_proof, 0) + 1

proof_of_work(last_proof) == search(last_proof, 0)

\* Whether the search ends within the bound of the model.
Solvable(last_proof) == \E q \in 0..MaxProof : valid_proof(last_proof, q)

\* json.dumps(block, sort_keys=True) and its digest: keys in sorted order,
\* the transactions by value.
hash(block) ==
    ToString(<<block.index, block.previous_hash, block.proof, block.timestamp,
               block.transactions.items>>)

last_block(self) == Last(self.chain)

\* list.append on the list object `id`: every holder of that object sees it.
ListAppend(list, id, item) ==
    IF list.id = id /\ id # 0 THEN [list EXCEPT !.items = Append(@, item)] ELSE list

BlockAppend(block, id, item) ==
    [block EXCEPT !.transactions = ListAppend(@, id, item)]

ChainAppend(c, id, item) == [k \in 1..Len(c) |-> BlockAppend(c[k], id, item)]

\* jsonify / response.json(): the same values in lists of their own.
Wire(c) == [k \in 1..Len(c) |-> [c[k] EXCEPT !.transactions.id = 0]]

---------------------------------------------------------------------------
(* The Blockchain object of process n, and its methods as functions of it *)

Self(n) ==
    [chain |-> chain[n], current_transactions |-> current_transactions[n],
     nodes |-> nodes[n], nextList |-> nextList[n]]

Store(n, self) ==
    /\ chain' = [chain EXCEPT ![n] = self.chain]
    /\ current_transactions' = [current_transactions EXCEPT ![n] = self.current_transactions]
    /\ nodes' = [nodes EXCEPT ![n] = self.nodes]
    /\ nextList' = [nextList EXCEPT ![n] = self.nextList]

None == ""

\* new_block without line 31, the pool left bound to the list of the block:
\* what C2 must tell from new_block.
new_block_keeps_pool(self, proof, previous_hash, time) ==
    LET block == [index |-> Len(self.chain) + 1,
                  timestamp |-> time,
                  transactions |-> self.current_transactions,
                  proof |-> proof,
                  previous_hash |-> IF previous_hash # None THEN previous_hash
                                    ELSE hash(last_block(self))]
    IN  [self EXCEPT !.chain = Append(@, block)]

\* new_block(proof, previous_hash): the block is self.chain's new last element.
new_block(self, proof, previous_hash, time) ==
    LET block == [index |-> Len(self.chain) + 1,
                  timestamp |-> time,
                  transactions |-> self.current_transactions,
                  proof |-> proof,
                  previous_hash |-> IF previous_hash # None THEN previous_hash
                                    ELSE hash(last_block(self))]
    IN  [self EXCEPT !.current_transactions = NewList(self.nextList),
                     !.nextList = @ + 1,
                     !.chain = Append(@, block)]

\* new_transaction(sender, recipient, amount): the object afterwards, and
\* the value returned.
new_transaction(self, sender, recipient, amount) ==
    LET item == [sender |-> sender, recipient |-> recipient, amount |-> amount]
        id == self.current_transactions.id
        after == [self EXCEPT !.current_transactions = ListAppend(@, id, item),
                              !.chain = ChainAppend(@, id, item)]
    IN  [self |-> after, return |-> last_block(after).index + 1]

\* The first block of the walk raises IndexError on an empty list.
valid_chain_raises(c) == c = <<>>

RECURSIVE valid_chain_from(_, _, _)
valid_chain_from(c, last, current_index) ==
    IF current_index < Len(c)
    THEN LET block == c[current_index + 1]
         IN  IF block.previous_hash # hash(last) THEN FALSE
             ELSE IF ~valid_proof(last.proof, block.proof) THEN FALSE
             ELSE valid_chain_from(c, block, current_index + 1)
    ELSE TRUE

\* A walk that starts one block late: what C4 must tell from valid_chain.
valid_chain_starts_late(c) == valid_chain_from(c, c[1], 2)

\* valid_chain(chain) for a non-empty chain; current_index is 0-based as in the source.
valid_chain(c) == valid_chain_from(c, c[1], 1)

\* urlparse(address).netloc for the addresses of the model.
netloc(address) ==
    CASE address = "http://A" -> "A"
      [] address = "http://A/chain" -> "A"
      [] address = "http://B" -> "B"
      [] address = "http://X" -> "X"
      [] address = "http://Y" -> "Y"
      [] OTHER -> ""

register_node(self, address) == [self EXCEPT !.nodes = @ \cup {netloc(address)}]


\* GET /chain on process p: full_chain().
full_chain(p) ==
    [outcome |-> "response", status_code |-> 200,
     length |-> Len(chain[p]), chain |-> Wire(chain[p])]

\* requests.get(f'http://{node}/chain'): a process of the program answers
\* with full_chain, a foreign server with anything, and an address that
\* names no server raises.
ConnectionError == [outcome |-> "exception", status_code |-> 0, length |-> 0, chain |-> <<>>]

\* A server that accepts the connection and never answers: requests.get is
\* called without a timeout and does not return.
NoAnswer == [outcome |-> "silent", status_code |-> 0, length |-> 0, chain |-> <<>>]

get(node) ==
    IF node \in Nodes THEN full_chain(node)
    ELSE IF node \in External THEN remote[node]
    ELSE ConnectionError

\* One pass of the loop body of resolve_conflicts over the answer of a peer.
\* acc.new_chain is {} for None and {c} for the list c.
Returns(node) == get(node).outcome # "silent"

\* The loop body with >= for > at line 142: what C14 must tell from visit.
visit_accepts_equal(acc, answer) ==
    IF answer.outcome = "exception" THEN [acc EXCEPT !.raised = TRUE]
    ELSE IF answer.status_code # 200 THEN acc
    ELSE IF ~(answer.length >= acc.max_length) THEN acc
    ELSE IF valid_chain_raises(answer.chain) THEN [acc EXCEPT !.raised = TRUE]
    ELSE IF valid_chain(answer.chain)
         THEN [acc EXCEPT !.max_length = answer.length, !.new_chain = {answer.chain}]
         ELSE acc

visit(acc, answer) ==
    IF answer.outcome = "exception" THEN [acc EXCEPT !.raised = TRUE]
    ELSE IF answer.status_code # 200 THEN acc
    ELSE IF ~(answer.length > acc.max_length) THEN acc
    ELSE IF valid_chain_raises(answer.chain) THEN [acc EXCEPT !.raised = TRUE]
    ELSE IF valid_chain(answer.chain)
         THEN [acc EXCEPT !.max_length = answer.length, !.new_chain = {answer.chain}]
         ELSE acc

RECURSIVE scan(_, _, _, _)
scan(neighbours, k, answers, acc) ==
    IF k > Len(neighbours) \/ acc.raised THEN acc
    ELSE scan(neighbours, k + 1, answers, visit(acc, answers[neighbours[k]]))

\* `if new_chain:` is false for None and for an empty list.
Truthy(new_chain) == \E c \in new_chain : c # <<>>

\* resolve_conflicts(), the peers visited in the order `neighbours`:
\* the object afterwards and "True", "None" or "raise".
resolve_conflicts(self, neighbours, answers) ==
    LET acc == scan(neighbours, 1, answers,
                    [max_length |-> Len(self.chain), new_chain |-> {}, raised |-> FALSE])
    IN  IF acc.raised THEN [self |-> self, return |-> "raise"]
        ELSE IF Truthy(acc.new_chain)
             THEN [self |-> [self EXCEPT !.chain = CHOOSE c \in acc.new_chain : TRUE],
                   return |-> "True"]
             ELSE [self |-> self, return |-> "None"]

\* The orders in which `for node in neighbours` may visit a set.
Orders(S) ==
    {o \in [1..Cardinality(S) -> S] : \A a, b \in 1..Cardinality(S) : a # b => o[a] # o[b]}

---------------------------------------------------------------------------
(* The routes, each served from start to end on the Blockchain object     *)
(* `self`: the object afterwards and the response                          *)

\* The JSON bodies posted to /transactions/new: keys is the set of keys present.
required == {"sender", "recipient", "amount"}

\* POST /transactions/new
route_new_transaction(self, values) ==
    IF ~(required \subseteq values.keys)
    THEN [self |-> self, status |-> 400, index |-> 0]
    ELSE LET r == new_transaction(self, values.sender, values.recipient, values.amount)
         IN  [self |-> r.self, status |-> 201, index |-> r.return]

\* GET /mine in the process whose node_identifier is `identifier`
mine(self, identifier, time) ==
    LET last_proof == last_block(self).proof
        proof == proof_of_work(last_proof)
        rewarded == new_transaction(self, "0", identifier, 1).self
        after == new_block(rewarded, proof, None, time)
    IN  [self |-> after, status |-> 200, block |-> last_block(after)]

RECURSIVE register_all(_, _, _)
register_all(self, list, k) ==
    IF k > Len(list) THEN self
    ELSE register_all(register_node(self, list[k]), list, k + 1)

\* POST /nodes/register; has_nodes is whether the body holds the key "nodes".
register_nodes(self, has_nodes, list) ==
    IF ~has_nodes
    THEN [self |-> self, status |-> 400]
    ELSE [self |-> register_all(self, list, 1), status |-> 201]

\* GET /nodes/resolve, the peers visited in the order `neighbours`.  An
\* exception out of resolve_conflicts is the server's 500.
consensus(self, neighbours, answers) ==
    LET r == resolve_conflicts(self, neighbours, answers)
    IN  [self |-> r.self,
         status |-> IF r.return = "raise" THEN 500 ELSE 200,
         replaced |-> r.return]

---------------------------------------------------------------------------
(* The state after construction: blockchain = Blockchain() in each process *)

\* __init__ at clock value `time`.
\* A constructor that leaves previous_hash to its default at line 21, so
\* that self.last_block is read on an empty chain: the block is not made
\* and the chain stays empty.  What C16 must tell from init.
init_without_genesis(time) ==
    [chain |-> <<>>, current_transactions |-> NewList(1), nodes |-> {}, nextList |-> 2]

init(time) ==
    new_block([chain |-> <<>>, current_transactions |-> NewList(1),
               nodes |-> {}, nextList |-> 2],
              100, "1", time)

DownServer == [outcome |-> "response", status_code |-> 404, length |-> 0, chain |-> <<>>]

InitWith(answers) ==
    /\ now = 0
    /\ chain = [n \in Nodes |-> init(now).chain]
    /\ current_transactions = [n \in Nodes |-> init(now).current_transactions]
    /\ nodes = [n \in Nodes |-> init(now).nodes]
    /\ nextList = [n \in Nodes |-> init(now).nextList]
    /\ remote \in [External -> answers]
    /\ receipts = [n \in Nodes |-> {}]
    /\ threads = [t \in Threads |-> Idle]

---------------------------------------------------------------------------
(* Requests served one at a time *)

Payloads ==
    {[keys |-> required, sender |-> "alice", recipient |-> "bob", amount |-> 10],
     [keys |-> required, sender |-> "bob", recipient |-> "carol", amount |-> 5]}

Malformed ==
    {[keys |-> keys, sender |-> "alice", recipient |-> "bob", amount |-> 0] :
        keys \in (SUBSET required) \ {required}}

Item(values) ==
    [sender |-> values.sender, recipient |-> values.recipient, amount |-> values.amount]

Reward(n) == [sender |-> "0", recipient |-> node_identifier[n], amount |-> 1]

InSeq(x, s) == \E k \in 1..Len(s) : s[k] = x

\* Clients do not post the same transaction twice: a payload is posted only
\* while no pool and no block holds it.
Fresh(values) ==
    \A n \in Nodes :
        /\ ~InSeq(Item(values), current_transactions[n].items)
        /\ \A k \in 1..Len(chain[n]) : ~InSeq(Item(values), chain[n][k].transactions.items)

Addresses == {"http://A", "http://A/chain", "http://B", "http://X", "http://Y", "A"}

\* The lists that name the servers `peers`, by one address or by two.
NodeLists(peers) ==
    {<<>>} \cup {<<a>> : a \in {x \in Addresses : netloc(x) \in peers}}
           \cup {<<a, b>> : a, b \in {x \in Addresses : netloc(x) \in peers}}

Submit(n) ==
    \E values \in Payloads \cup Malformed :
        /\ Len(current_transactions[n].items) < MaxPool
        /\ Fresh(values)
        /\ \E r \in {route_new_transaction(Self(n), values)} :
            /\ Store(n, r.self)
            /\ receipts' = IF r.status = 201
                           THEN [receipts EXCEPT ![n] = @ \cup {<<Item(values), r.index>>}]
                           ELSE receipts
        /\ UNCHANGED <<now, remote, threads>>

\* The blocks process n has mined: a list object is created with each.
Mined(n) == nextList[n] - init(0).nextList

Mine(n) ==
    /\ Len(chain[n]) < MaxChain
    /\ Mined(n) < MaxChain - 1
    /\ Solvable(Last(chain[n]).proof)
    /\ \E r \in {mine(Self(n), node_identifier[n], now)} : Store(n, r.self)
    /\ UNCHANGED <<now, remote, receipts, threads>>

RegisterPeer(n, peers) ==
    /\ \/ \E r \in {register_nodes(Self(n), FALSE, <<>>)} : Store(n, r.self)
       \/ \E list \in NodeLists(peers) :
            \E r \in {register_nodes(Self(n), TRUE, list)} : Store(n, r.self)
    /\ UNCHANGED <<now, remote, receipts, threads>>

Answers(n) == [p \in nodes[n] |-> get(p)]

Resolve(n) ==
    /\ \A p \in nodes[n] : Returns(p)
    /\ \E neighbours \in Orders(nodes[n]) :
        \E r \in {consensus(Self(n), neighbours, Answers(n))} : Store(n, r.self)
    /\ UNCHANGED <<now, remote, receipts, threads>>

\* time passes
Tick ==
    /\ now < MaxTime
    /\ now' = now + 1
    /\ UNCHANGED <<chain, current_transactions, nodes, nextList, remote, receipts, threads>>

---------------------------------------------------------------------------
(* SpecSeq: processes of the program as each other's peers, one request   *)
(* at a time.  Clients post transactions to process A.                     *)

InitSeq == InitWith({DownServer})

NextSeq ==
    \/ Tick
    \/ Submit("A")
    \/ \E n \in Nodes : Mine(n)
    \/ \E n \in Nodes : RegisterPeer(n, Nodes \ {n})
    \/ \E n \in Nodes : Resolve(n)

SpecSeq == InitSeq /\ [][NextSeq]_vars

\* SpecFair: the processes take transactions, mine, register one another and resolve, within
\* one reading of the clock; every process serves GET /nodes/resolve again
\* and again.
NextFair ==
    \/ Submit("A")
    \/ \E n \in Nodes : Mine(n)
    \/ \E n \in Nodes : RegisterPeer(n, Nodes \ {n})
    \/ \E n \in Nodes : Resolve(n)

SpecFair == InitSeq /\ [][NextFair]_vars /\ \A n \in Nodes : WF_vars(Resolve(n))

---------------------------------------------------------------------------
(* SpecOpen: process A, one request at a time, with foreign servers as    *)
(* peers.  What a foreign server answers is fixed when it starts.          *)

\* The blocks a foreign server may put after the chain c: the proof found
\* by the search or the next integer, the digest of the last block or
\* another string.
Extend(c) ==
    {[index |-> Len(c) + 1, timestamp |-> 0, transactions |-> NewList(0),
      proof |-> proof, previous_hash |-> previous_hash] :
        proof \in {proof_of_work(Last(c).proof), proof_of_work(Last(c).proof) + 1},
        previous_hash \in {hash(Last(c)), "bad"}}

\* First blocks: the genesis block of a process of the program, and one
\* with fields of its own.
Firsts ==
    {Wire(init(0).chain)[k] : k \in 1..Len(init(0).chain)} \cup
    {[index |-> 7, timestamp |-> 0, transactions |-> NewList(0), proof |-> 3,
      previous_hash |-> "bad"]}

RECURSIVE ChainsOfLength(_)
ChainsOfLength(k) ==
    IF k = 1 THEN {<<b>> : b \in Firsts}
    ELSE UNION {{Append(c, b) : b \in Extend(c)} : c \in ChainsOfLength(k - 1)}

ForeignChains == {<<>>} \cup UNION {ChainsOfLength(k) : k \in 1..MaxChain}

\* Every answer: no connection, a non-success status, or 200 with any
\* of the chains under any length.
AnyAnswers ==
    {ConnectionError, DownServer} \cup
    {[outcome |-> "response", status_code |-> 200, length |-> length, chain |-> c] :
        length \in 0..MaxChain + 1, c \in ForeignChains}

\* Whether every block of c but the first has the fields of a block mined
\* on its predecessor.
WellFormed(c) ==
    \A k \in 2..Len(c) :
        /\ c[k].previous_hash = hash(c[k - 1])
        /\ valid_proof(c[k - 1].proof, c[k].proof)

\* The answers two foreign servers are drawn from: the failures, and the
\* chains that start with a genesis block of the program and are well
\* formed up to their last block, under their true length or a longer one.
SomeAnswers ==
    {a \in AnyAnswers :
        \/ a.outcome = "exception"
        \/ a.status_code # 200
        \/ /\ a.length \in {Len(a.chain), MaxChain + 1}
           /\ a.chain # <<>> => /\ <<a.chain[1]>> = Wire(init(0).chain)
                                /\ WellFormed(SubSeq(a.chain, 1, Len(a.chain) - 1))}

InitOpen == InitWith(SomeAnswers)

NextOpen ==
    \/ Mine("A")
    \/ RegisterPeer("A", External)
    \/ Resolve("A")

SpecOpen == InitOpen /\ [][NextOpen]_vars

\* SpecValid: as SpecOpen, with one foreign server that answers anything.
InitValid == InitWith(AnyAnswers) /\ remote["Y"] = DownServer

SpecValid == InitValid /\ [][NextOpen]_vars

---------------------------------------------------------------------------
(* Spec: the threaded server.  A request is served by a thread, one step  *)
(* per access to the Blockchain object; the threads of a process          *)
(* interleave between steps.  The peers are processes of the program.     *)

Busy(n) == {t \in Threads : threads[t].pc # "idle" /\ threads[t].node = n}

Mining(n) ==
    {t \in Busy(n) : threads[t].pc \in {"reward_load", "reward_append", "nb_index",
                                        "nb_transactions", "nb_hash", "nb_reset", "nb_append"}}

At(t, pc) == threads[t].pc = pc

\* A request is handed to the first thread that is free.
Free(t) == At(t, "idle") /\ \A u \in Threads : u < t => ~At(u, "idle")

Goto(t, pc) == threads' = [threads EXCEPT ![t].pc = pc]

\* list.append(item) on the list object `id` of process n, seen through
\* every reference to it: the pool, the blocks of the chain, and the blocks
\* the threads are building.  Thread t moves on to `pc`.
AppendThroughReference(t, n, id, item, pc) ==
    /\ current_transactions' = [current_transactions EXCEPT ![n] = ListAppend(@, id, item)]
    /\ chain' = [chain EXCEPT ![n] = ChainAppend(@, id, item)]
    /\ threads' = [u \in Threads |->
            LET seen == IF threads[u].node = n
                        THEN [threads[u] EXCEPT !.transactions = ListAppend(@, id, item)]
                        ELSE threads[u]
            IN  IF u = t THEN [seen EXCEPT !.pc = pc] ELSE seen]

\* POST /transactions/new, lines 157-162 and 46: the body is checked and
\* self.current_transactions is loaded.
SubmitLoad(t, n, values) ==
    /\ Free(t)
    /\ required \subseteq values.keys
    /\ Len(current_transactions[n].items) < MaxPool
    /\ Fresh(values)
    /\ \A u \in Threads : threads[u].item # Item(values)
    /\ \A receipt \in receipts[n] : receipt[1] # Item(values)
    /\ threads' = [threads EXCEPT ![t] = [Idle EXCEPT !.pc = "nt_append", !.node = n,
                                                     !.item = Item(values),
                                                     !.list = current_transactions[n].id]]
    /\ UNCHANGED <<now, chain, current_transactions, nodes, nextList, remote, receipts>>

\* lines 46-50: the dict is appended to the list that was loaded.
SubmitAppend(t) ==
    /\ At(t, "nt_append")
    /\ AppendThroughReference(t, threads[t].node, threads[t].list, threads[t].item, "nt_return")
    /\ UNCHANGED <<now, nodes, nextList, remote, receipts>>

\* line 51 and lines 164-165: the index of the last block, plus one, is returned.
SubmitReturn(t) ==
    /\ At(t, "nt_return")
    /\ receipts' = [receipts EXCEPT ![threads[t].node] =
                        @ \cup {<<threads[t].item, Last(chain[threads[t].node]).index + 1>>}]
    /\ threads' = [threads EXCEPT ![t] = Idle]
    /\ UNCHANGED <<now, chain, current_transactions, nodes, nextList, remote>>

\* GET /mine, lines 170-172: the proof of the last block is read and the
\* search runs on it.
MineStart(t, n) ==
    /\ Free(t)
    /\ Len(chain[n]) < MaxChain
    /\ Mined(n) + Cardinality(Mining(n)) < MaxChain - 1
    /\ Solvable(Last(chain[n]).proof)
    /\ threads' = [threads EXCEPT ![t] = [Idle EXCEPT !.pc = "reward_load", !.node = n,
                                                     !.proof = proof_of_work(Last(chain[n]).proof)]]
    /\ UNCHANGED <<now, chain, current_transactions, nodes, nextList, remote, receipts>>

\* lines 175 and 46: new_transaction loads self.current_transactions.
MineRewardLoad(t) ==
    /\ At(t, "reward_load")
    /\ threads' = [threads EXCEPT ![t].pc = "reward_append",
                                  ![t].list = current_transactions[threads[t].node].id]
    /\ UNCHANGED <<now, chain, current_transactions, nodes, nextList, remote, receipts>>

\* lines 46-51: the reward is appended to the list that was loaded.
MineRewardAppend(t) ==
    /\ At(t, "reward_append")
    /\ AppendThroughReference(t, threads[t].node, threads[t].list,
                              Reward(threads[t].node), "nb_index")
    /\ UNCHANGED <<now, nodes, nextList, remote, receipts>>

\* new_block, lines 25-26: len(self.chain) + 1 and time().
NewBlockIndex(t) ==
    /\ At(t, "nb_index")
    /\ threads' = [threads EXCEPT ![t].pc = "nb_transactions",
                                  ![t].index = Len(chain[threads[t].node]) + 1,
                                  ![t].timestamp = now]
    /\ UNCHANGED <<now, chain, current_transactions, nodes, nextList, remote, receipts>>

\* line 27: the block refers to the list self.current_transactions is bound to.
NewBlockTransactions(t) ==
    /\ At(t, "nb_transactions")
    /\ threads' = [threads EXCEPT ![t].pc = "nb_hash",
                                  ![t].transactions = current_transactions[threads[t].node]]
    /\ UNCHANGED <<now, chain, current_transactions, nodes, nextList, remote, receipts>>

\* line 29: previous_hash is None, so the last block is hashed.
NewBlockHash(t) ==
    /\ At(t, "nb_hash")
    /\ threads' = [threads EXCEPT ![t].pc = "nb_reset",
                                  ![t].previous_hash = hash(Last(chain[threads[t].node]))]
    /\ UNCHANGED <<now, chain, current_transactions, nodes, nextList, remote, receipts>>

\* line 31: self.current_transactions is bound to a new list.
NewBlockReset(t) ==
    /\ At(t, "nb_reset")
    /\ current_transactions' =
           [current_transactions EXCEPT ![threads[t].node] = NewList(nextList[threads[t].node])]
    /\ nextList' = [nextList EXCEPT ![threads[t].node] = @ + 1]
    /\ Goto(t, "nb_append")
    /\ UNCHANGED <<now, chain, nodes, remote, receipts>>

\* line 32: the block is appended to self.chain.
NewBlockAppend(t) ==
    /\ At(t, "nb_append")
    /\ chain' = [chain EXCEPT ![threads[t].node] =
                    Append(@, [index |-> threads[t].index,
                               timestamp |-> threads[t].timestamp,
                               transactions |-> threads[t].transactions,
                               proof |-> threads[t].proof,
                               previous_hash |-> threads[t].previous_hash])]
    /\ threads' = [threads EXCEPT ![t] = Idle]
    /\ UNCHANGED <<now, current_transactions, nodes, nextList, remote, receipts>>

\* GET /nodes/resolve, lines 130-133: the peers and len(self.chain) are read.
ResolveStart(t, n) ==
    /\ Free(t)
    /\ \E neighbours \in Orders(nodes[n]) :
         threads' = [threads EXCEPT ![t] =
            [Idle EXCEPT !.pc = "fetch", !.node = n, !.neighbours = neighbours,
                         !.size = Cardinality(nodes[n]),
                         !.acc = [max_length |-> Len(chain[n]), new_chain |-> {},
                                  raised |-> FALSE]]]
    /\ UNCHANGED <<now, chain, current_transactions, nodes, nextList, remote, receipts>>

\* line 135: the iterator of self.nodes raises RuntimeError when the set
\* has changed size since the iteration began.
SetChangedSize(t) == Cardinality(nodes[threads[t].node]) # threads[t].size

\* lines 135-144: the next peer is fetched and its answer looked at; an
\* exception ends the request.
ResolveFetch(t) ==
    /\ At(t, "fetch")
    /\ threads[t].neighbours # <<>>
    /\ Returns(Head(threads[t].neighbours))
    /\ LET acc == visit(threads[t].acc, get(Head(threads[t].neighbours)))
       IN  threads' = [threads EXCEPT ![t] =
               IF SetChangedSize(t) \/ acc.raised THEN Idle
               ELSE [@ EXCEPT !.acc = acc, !.neighbours = Tail(@)]]
    /\ UNCHANGED <<now, chain, current_transactions, nodes, nextList, remote, receipts>>

\* lines 135 and 146-148: after the last peer, self.chain is bound to new_chain if there is one.
ResolveInstall(t) ==
    /\ At(t, "fetch")
    /\ threads[t].neighbours = <<>>
    /\ chain' = IF ~SetChangedSize(t) /\ Truthy(threads[t].acc.new_chain)
                THEN [chain EXCEPT ![threads[t].node] = CHOOSE c \in threads[t].acc.new_chain : TRUE]
                ELSE chain
    /\ threads' = [threads EXCEPT ![t] = Idle]
    /\ UNCHANGED <<now, current_transactions, nodes, nextList, remote, receipts>>

Init == InitWith({DownServer})

\* The bodies the clients of the threaded server post.
Posted == {values \in Payloads : values.sender = "alice"}

Next ==
    \/ \E t \in Threads : \E values \in Posted : SubmitLoad(t, "A", values)
    \/ \E t \in Threads : SubmitAppend(t)
    \/ \E t \in Threads : SubmitReturn(t)
    \/ \E t \in Threads : MineStart(t, "A")
    \/ \E t \in Threads : MineRewardLoad(t)
    \/ \E t \in Threads : MineRewardAppend(t)
    \/ \E t \in Threads : NewBlockIndex(t)
    \/ \E t \in Threads : NewBlockTransactions(t)
    \/ \E t \in Threads : NewBlockHash(t)
    \/ \E t \in Threads : NewBlockReset(t)
    \/ \E t \in Threads : NewBlockAppend(t)
    \/ \E t \in Threads : ResolveStart(t, "A")
    \/ \E t \in Threads : ResolveFetch(t)
    \/ \E t \in Threads : ResolveInstall(t)
    \/ RegisterPeer("A", {"B"})
    \/ Mine("B")

Spec == Init /\ [][Next]_vars

\* SpecLocal: the threads of process A serve POST /transactions/new and
\* GET /mine; no chain is taken from a peer.
NextLocal ==
    \/ \E t \in Threads : \E values \in Payloads : SubmitLoad(t, "A", values)
    \/ \E t \in Threads : SubmitAppend(t)
    \/ \E t \in Threads : SubmitReturn(t)
    \/ \E t \in Threads : MineStart(t, "A")
    \/ \E t \in Threads : MineRewardLoad(t)
    \/ \E t \in Threads : MineRewardAppend(t)
    \/ \E t \in Threads : NewBlockIndex(t)
    \/ \E t \in Threads : NewBlockTransactions(t)
    \/ \E t \in Threads : NewBlockHash(t)
    \/ \E t \in Threads : NewBlockReset(t)
    \/ \E t \in Threads : NewBlockAppend(t)

SpecLocal == Init /\ [][NextLocal]_vars

\* SpecSilent: the threads of process A resolve against foreign servers
\* that answer with a chain of their own, with a failure status, or never.
\* A thread that can take its next step takes it.
HonestAnswers ==
    {a \in SomeAnswers : /\ a.outcome = "response" /\ a.status_code = 200
                         /\ a.chain # <<>> /\ a.length = Len(a.chain)
                         /\ WellFormed(a.chain)}

InitSilent == InitWith({NoAnswer, DownServer} \cup HonestAnswers)

NextSilent ==
    \/ RegisterPeer("A", External)
    \/ \E t \in Threads : ResolveStart(t, "A")
    \/ \E t \in Threads : ResolveFetch(t)
    \/ \E t \in Threads : ResolveInstall(t)

SpecSilent ==
    /\ InitSilent /\ [][NextSilent]_vars
    /\ \A t \in Threads : WF_vars(ResolveFetch(t)) /\ WF_vars(ResolveInstall(t))

\* SpecAny: process A serves every kind of request, one at a time, with
\* foreign servers that fail, answer with an empty chain under a great
\* length, or answer with a chain of their own.
EmptyAnswer ==
    [outcome |-> "response", status_code |-> 200, length |-> MaxChain + 1, chain |-> <<>>]

InitAny == InitWith({ConnectionError, DownServer, EmptyAnswer} \cup HonestAnswers)

NextAny ==
    \/ Submit("A")
    \/ Mine("A")
    \/ RegisterPeer("A", External)
    \/ Resolve("A")

SpecAny == InitAny /\ [][NextAny]_vars

\* SpecPow: process A mines on a chain whose last block holds any proof:
\* the chain it has taken from the foreign server X.
InitPow ==
    /\ now = 0
    /\ \E last_proof \in 0..MaxProof :
          \E c \in {<<[Wire(init(now).chain)[1] EXCEPT !.proof = last_proof]>>} :
            /\ chain = [n \in Nodes |-> IF n = "A" THEN c ELSE init(now).chain]
            /\ remote = [p \in External |->
                            IF p = "X"
                            THEN [outcome |-> "response", status_code |-> 200,
                                  length |-> MaxChain + 1, chain |-> c]
                            ELSE DownServer]
    /\ current_transactions = [n \in Nodes |-> init(now).current_transactions]
    /\ nodes = [n \in Nodes |-> IF n = "A" THEN {"X"} ELSE {}]
    /\ nextList = [n \in Nodes |-> init(now).nextList]
    /\ receipts = [n \in Nodes |-> {}]
    /\ threads = [t \in Threads |-> Idle]

NextPow == Mine("A")

SpecPow == InitPow /\ [][NextPow]_vars

---------------------------------------------------------------------------
(* Properties of the routes served one at a time *)

AliceBob10 == [sender |-> "alice", recipient |-> "bob", amount |-> 10]

\* C2: in every state of a process that serves its requests one at a time,
\* a Mine request commits exactly the pending pool as it stands at the
\* start of the request followed by the reward transaction
\* (sender "0", recipient the node identifier, amount 1), as one new block,
\* and leaves the pool empty; on a fresh process that holds the single
\* pending transaction (alice, bob, 10) the block is block 2 with exactly
\* these two transactions.
C2_MineCommitsPoolAndReward ==
    \A n \in Nodes :
        LET served == mine(Self(n), node_identifier[n], now)
            after == served.self
        IN  /\ Len(after.chain) = Len(chain[n]) + 1
            /\ \A k \in 1..Len(chain[n]) : after.chain[k] = chain[n][k]
            /\ served.block = Last(after.chain)
            /\ served.block.transactions.items =
                   Append(current_transactions[n].items,
                          [sender |-> "0", recipient |-> node_identifier[n], amount |-> 1])
            /\ after.current_transactions.items = <<>>
            /\ (Len(chain[n]) = 1 /\ current_transactions[n].items = <<AliceBob10>>
                    => /\ served.block.index = 2
                       /\ served.block.transactions.items = <<AliceBob10, Reward(n)>>)

\* C2's case: process A served Submit(alice, bob, 10) and then Mine.
C2_Witness ==
    /\ Len(chain["A"]) = 2
    /\ chain["A"][2].transactions.items = <<AliceBob10, Reward("A")>>
    /\ current_transactions["A"].items = <<>>
    /\ <<AliceBob10, 2>> \in receipts["A"]

\* C3: the chain of a process that serves its requests one at a time, each
\* Mine with the proof found by proof_of_work from the last block's proof,
\* passes valid_chain.
C3_MinedChainIsValid == \A n \in Nodes : valid_chain(chain[n])

\* C3's case: a chain of three blocks built by Submit and Mine alone.
C3_Witness ==
    /\ nodes["A"] = {}
    /\ Len(chain["A"]) = 3
    /\ \E k \in 2..3 : InSeq(AliceBob10, chain["A"][k].transactions.items)

\* C6: the index returned by POST /transactions/new is the index of the
\* block of the local chain that holds the transaction, whatever requests
\* were served in between.
C6_ReturnedIndexIsBlockIndex ==
    \A n \in Nodes : \A receipt \in receipts[n] : \A k \in 1..Len(chain[n]) :
        InSeq(receipt[1], chain[n][k].transactions.items) => chain[n][k].index = receipt[2]

---------------------------------------------------------------------------
(* Properties of valid_chain and resolve_conflicts against foreign servers *)

\* C4: for a non-empty candidate chain, valid_chain is true exactly when
\* every block from the second on carries the digest of its predecessor as
\* previous_hash and a proof that valid_proof accepts against the
\* predecessor's proof; the first block's own fields are not looked at.
C4_ValidChainIffLinksAndProofs ==
    \A p \in External :
        remote[p].chain # <<>> => (valid_chain(remote[p].chain) <=> WellFormed(remote[p].chain))

\* C4's case: resolve_conflicts has installed a chain of three blocks whose
\* first block is no genesis block of the program.
C4_Witness ==
    /\ chain["A"] = remote["X"].chain
    /\ Len(chain["A"]) = 3
    /\ chain["A"][1].index = 7

\* The peers of n whose fetch succeeds with a length above the local one
\* and a chain that passes valid_chain.
Qualifying(n) ==
    {p \in nodes[n] :
        /\ get(p).outcome = "response"
        /\ get(p).status_code = 200
        /\ get(p).length > Len(chain[n])
        /\ get(p).chain # <<>>
        /\ valid_chain(get(p).chain)}

\* C5: resolve_conflicts replaces the chain, and returns True, exactly when
\* some peer qualifies; the chain installed is one reported under the
\* greatest qualifying length; otherwise the chain is left as it was.
C5_ReplacesIffAPeerQualifies ==
    \A n \in Nodes : \A neighbours \in Orders(nodes[n]) :
        LET r == resolve_conflicts(Self(n), neighbours, Answers(n))
        IN  /\ r.return = "True" <=> Qualifying(n) # {}
            /\ r.return = "True" =>
                 \E p \in Qualifying(n) :
                    /\ r.self.chain = get(p).chain
                    /\ \A q \in Qualifying(n) : get(q).length <= get(p).length
            /\ r.return # "True" => r.self.chain = chain[n]

Without(neighbours, p) == SelectSeq(neighbours, LAMBDA x : x # p)

\* C7: a peer whose fetch fails (no connection, or a status other than
\* 200) is skipped: resolve_conflicts ends as it would have without it.
C7_FailedFetchIsSkipped ==
    \A n \in Nodes : \A neighbours \in Orders(nodes[n]) : \A p \in nodes[n] :
        get(p).outcome = "exception" \/ get(p).status_code # 200 =>
            resolve_conflicts(Self(n), neighbours, Answers(n))
                = resolve_conflicts(Self(n), Without(neighbours, p), Answers(n))

\* C8: a peer that answers 200 with a chain that is no valid chain (a
\* broken link, a failing proof, no block at all) is left out without an
\* error: resolve_conflicts ends as it would have without it, and never
\* installs that chain.
C8_InvalidChainIsExcluded ==
    \A n \in Nodes : \A neighbours \in Orders(nodes[n]) : \A p \in nodes[n] :
        /\ get(p).outcome = "response"
        /\ get(p).status_code = 200
        /\ (get(p).chain = <<>> \/ ~valid_chain(get(p).chain))
        => LET r == resolve_conflicts(Self(n), neighbours, Answers(n))
           IN  /\ r = resolve_conflicts(Self(n), Without(neighbours, p), Answers(n))
               /\ r.return = "True" => r.self.chain # get(p).chain

---------------------------------------------------------------------------
(* Properties of the threaded server *)

\* C1: every block that new_block appends without an explicit previous_hash
\* carries the digest of the block that was last in the chain immediately
\* before the append, and the index of that block plus one.
C1_NewBlockLinksToLast ==
    [][\A t \in Threads :
          NewBlockAppend(t) =>
              LET n == threads[t].node
              IN  /\ Last(chain'[n]).previous_hash = hash(Last(chain[n]))
                  /\ Last(chain'[n]).index = Last(chain[n]).index + 1]_vars

\* C9: in every reachable state, under any interleaving of the requests,
\* every block after the first carries the digest of its predecessor and a
\* proof that verifies against its predecessor's proof.
C9_LocalChainSelfConsistent ==
    \A n \in Nodes :
        \A k \in 2..Len(chain[n]) :
            /\ chain[n][k].previous_hash = hash(chain[n][k - 1])
            /\ valid_proof(chain[n][k - 1].proof, chain[n][k].proof)

\* C10: when every peer is a process of the program, in every reachable
\* state the block at position k of a chain has index k.
C10_IndexIsPosition ==
    \A n \in Nodes :
        \A k \in 1..Len(chain[n]) : chain[n][k].index = k

---------------------------------------------------------------------------
(* Properties of reconciliation *)

\* Every process has registered every other one.
AllRegistered == \A n \in Nodes : Nodes \ {n} \subseteq nodes[n]

\* The chains of all processes are equal block by block.
SameChains == \A n, p \in Nodes : Wire(chain[n]) = Wire(chain[p])

\* C11: when the processes have all registered one another, Submit and
\* Mine have stopped and every process keeps serving resolve, eventually
\* all processes hold the identical chain and keep it.
C11_EventuallySameChains == <>AllRegistered => <>[]SameChains

\* C12: for a fixed local chain and fixed answers of the peers, every order
\* in which resolve_conflicts visits the peers gives the same return value
\* and the same chain afterwards.
C12_OrderDoesNotMatter ==
    \A n \in Nodes :
        \A first, second \in Orders(nodes[n]) :
            resolve_conflicts(Self(n), first, Answers(n))
                = resolve_conflicts(Self(n), second, Answers(n))

\* C13: a resolve_conflicts that runs while a registered peer never answers
\* and another registered peer answers comes to its end.
C13_SilentPeerDoesNotBlock ==
    \A t \in Threads :
        (At(t, "fetch") /\ \E p \in nodes[threads[t].node] : Returns(p))
            ~> At(t, "idle")

\* The peers of n that answer with a valid chain strictly longer than c.
HoldLonger(n, c) ==
    {p \in nodes[n] :
        /\ get(p).outcome = "response"
        /\ get(p).status_code = 200
        /\ get(p).chain # <<>>
        /\ WellFormed(get(p).chain)
        /\ Len(get(p).chain) > Len(c)}

\* C14: when resolve_conflicts is called twice in a row, the answers of the
\* peers being the same, and no peer holds a valid chain strictly longer
\* than the local chain at the second call, the second call leaves the
\* chain as it is and does not return True.
C14_ResolveTwice ==
    \A n \in Nodes : \A first, second \in Orders(nodes[n]) :
        LET once == resolve_conflicts(Self(n), first, Answers(n))
            twice == resolve_conflicts(once.self, second, Answers(n))
        IN  HoldLonger(n, once.self.chain) = {}
                => /\ twice.self.chain = once.self.chain
                   /\ twice.return # "True"

\* Every peer of n that answers with a chain reports that chain's length.
TrueLengths(n) ==
    \A p \in nodes[n] :
        get(p).outcome = "response" /\ get(p).status_code = 200
            => get(p).length = Len(get(p).chain)

\* C14, amended: the same when every peer reports the true length of the
\* chain it answers with.
C14_ResolveTwiceTrueLengths ==
    \A n \in Nodes : TrueLengths(n) => 
        \A first, second \in Orders(nodes[n]) :
            LET once == resolve_conflicts(Self(n), first, Answers(n))
                twice == resolve_conflicts(once.self, second, Answers(n))
            IN  HoldLonger(n, once.self.chain) = {}
                    => /\ twice.self.chain = once.self.chain
                       /\ twice.return # "True"

\* C14's case: A has taken the chain of a peer in a first resolve, every
\* peer reports its true length and none holds a longer valid chain.
C14_Witness ==
    /\ TrueLengths("A")
    /\ Len(chain["A"]) > 1
    /\ \E p \in nodes["A"] : get(p).outcome = "response" /\ get(p).chain = chain["A"]
    /\ HoldLonger("A", chain["A"]) = {}

---------------------------------------------------------------------------
(* Properties of the requests *)

\* C15: a transaction submission that lacks any of sender, recipient and
\* amount, and a registration whose list of peers is missing or empty, are
\* answered with a client error and leave the chain, the pool and the peers
\* as they were.
C15_MalformedIsRejected ==
    \A n \in Nodes :
        /\ \A values \in Malformed :
              LET r == route_new_transaction(Self(n), values)
              IN  r.status = 400 /\ r.self = Self(n)
        /\ \A has_nodes \in BOOLEAN :
              LET r == register_nodes(Self(n), has_nodes, <<>>)
              IN  r.status = 400 /\ r.self = Self(n)

\* Process n has served no request that changes its state.
Untouched(n) ==
    /\ nodes[n] = {}
    /\ Mined(n) = 0
    /\ current_transactions[n].items = <<>>

\* C16: a process that has just been constructed holds exactly one block,
\* with index 1, previous_hash "1", proof 100 and no transactions; in every
\* state reached afterwards the chain holds at least one block.
C16_GenesisAndNonEmpty ==
    \A n \in Nodes :
        /\ Len(chain[n]) >= 1
        /\ Untouched(n) =>
              /\ Len(chain[n]) = 1
              /\ chain[n][1].index = 1
              /\ chain[n][1].previous_hash = "1"
              /\ chain[n][1].proof = 100
              /\ chain[n][1].transactions.items = <<>>

\* C16's case: A has taken a transaction, and holds the chain of a peer
\* after a resolve, while another registered peer answers with no block.
C16_Witness ==
    /\ receipts["A"] # {}
    /\ Len(chain["A"]) > 1
    /\ \E p \in nodes["A"] : get(p).chain = chain["A"]
    /\ \E p \in nodes["A"] : get(p) = EmptyAnswer

---------------------------------------------------------------------------
(* Properties of the proof of work *)

\* C17: for a last proof that some candidate verifies against, the proof
\* that proof_of_work finds verifies, and no smaller candidate from 0 on does.
C17_ProofIsSmallest ==
    \A k \in 2..Len(chain["A"]) :
        LET last_proof == chain["A"][k - 1].proof
            proof == chain["A"][k].proof
        IN  /\ valid_proof(last_proof, proof)
            /\ \A q \in 0..(proof - 1) : ~valid_proof(last_proof, q)

\* C17's case: a block mined with a proof that took a search of several
\* candidates, and one mined with the proof 0.
C17_Witness ==
    /\ Len(chain["A"]) = 3
    /\ \E j, k \in 2..3 : chain["A"][j].proof > 2 /\ chain["A"][k].proof = 0

---------------------------------------------------------------------------
(* Properties of the threaded server, continued *)

\* C19: with peers that report the true length of their chain, no step of
\* any interleaving of the requests makes the chain of a process shorter.
C19_LengthNeverDecreases ==
    [][\A n \in Nodes : Len(chain'[n]) >= Len(chain[n])]_vars

\* C18: under any interleaving of Submit and Mine requests, the list of
\* transactions of a block that is in the chain never changes: what is
\* added to the pool later goes to a later block.
C18_CommittedBlockIsFixed ==
    [][\A n \in Nodes : \A k \in 1..Len(chain[n]) :
          chain'[n][k].transactions.items = chain[n][k].transactions.items]_vars

\* How often x occurs in the sequence s.
Occurrences(x, s) == Cardinality({k \in 1..Len(s) : s[k] = x})

RECURSIVE InBlocks(_, _, _)
InBlocks(x, c, k) ==
    IF k > Len(c) THEN 0
    ELSE Occurrences(x, c[k].transactions.items) + InBlocks(x, c, k + 1)

\* How often x occurs in the pool and the blocks of process n.
Held(x, n) == Occurrences(x, current_transactions[n].items) + InBlocks(x, chain[n], 1)

\* C20: when no chain has been taken from a peer, after every completed
\* request each transaction accepted by Submit is in exactly one place, the
\* pool or one block, and so is the reward of each Mine.
C20_NeitherDroppedNorDuplicated ==
    \A n \in Nodes :
        Busy(n) = {} =>
            /\ \A receipt \in receipts[n] : Held(receipt[1], n) = 1
            /\ Held(Reward(n), n) = Mined(n)

=============================================================================
